---- MODULE Spec2Model ----
(***************************************************************************)
(* Model of the flowchart pipeline of backend/analyzer.py as it is driven  *)
(* by analyze_code_endpoint (code-clarified/backend/main.py):              *)
(*   syntax tree -> CodeAnalyzer.structure -> networkx DiGraph -> Digraph  *)
(*                                                                         *)
(* Text is modelled as a sequence of one-character strings, so that the    *)
(* f-strings, str.startswith, str.replace and str.join of the source are   *)
(* computed character by character and two ids are equal exactly when the  *)
(* Python strings are equal.                                               *)
(***************************************************************************)
EXTENDS Integers, Sequences, FiniteSets, TLC

(***************************************************************************)
(* Bounds of the model.                                                    *)
(***************************************************************************)
MaxNodes == 4   \* statements in a syntax tree
MaxFuncs == 2   \* functions in a directly supplied structure
MaxSteps == 2   \* steps in a flow of a directly supplied structure

(***************************************************************************)
(* String literals of the source.                                          *)
(***************************************************************************)
s_func_ == <<"f","u","n","c","_">>
s_cluster_func_ == <<"c","l","u","s","t","e","r","_","f","u","n","c","_">>
s_cluster_func == <<"c","l","u","s","t","e","r","_","f","u","n","c">>
s__start == <<"_","s","t","a","r","t">>
s__empty == <<"_","e","m","p","t","y">>
s__end == <<"_","e","n","d">>
s__step_ == <<"_","s","t","e","p","_">>
s_Start == <<"S","t","a","r","t">>
s_End == <<"E","n","d">>
s_No_operations == <<"N","o"," ","o","p","e","r","a","t","i","o","n","s">>
s_Decision == <<"D","e","c","i","s","i","o","n">>
s_Decision_colon == <<"D","e","c","i","s","i","o","n",":"," ">>
s_Decision_if == <<"D","e","c","i","s","i","o","n",":"," ","i","f"," ">>
s_Loop_for == <<"L","o","o","p",":"," ","f","o","r"," ">>
s_in == <<" ","i","n"," ">>
s_Loop_while == <<"L","o","o","p",":"," ","w","h","i","l","e"," ">>
s_Return == <<"R","e","t","u","r","n">>
s_Return_sp == <<"R","e","t","u","r","n"," ">>
s_Function == <<"F","u","n","c","t","i","o","n",":"," ">>
s_lparen == <<"(">>
s_rparen == <<")">>
s_comma_sp == <<","," ">>
s_main == <<"m","a","i","n">>
s_No_functions == <<"N","o"," ","f","u","n","c","t","i","o","n","s"," ","f","o","u","n","d"," ","t","o"," ","m","a","p",".">>
s_if == <<"i","f"," ">>

(***************************************************************************)
(* Python string operations.                                               *)
(***************************************************************************)
Digits == <<"0","1","2","3","4","5","6","7","8","9">>

\* Mutant of str: every index is rendered as "0".
str_fixed(i) == <<"0">>

RECURSIVE str(_)
str(i) ==
    IF i < 10 THEN <<Digits[i + 1]>>
    ELSE str(i \div 10) \o <<Digits[(i % 10) + 1]>>

startswith(s, prefix) ==
    /\ Len(s) >= Len(prefix)
    /\ SubSeq(s, 1, Len(prefix)) = prefix

\* Mutant of replace: the text is returned unchanged.
replace_nothing(s, old, new) == s

RECURSIVE replace(_, _, _)
replace(s, old, new) ==
    IF s = <<>> THEN <<>>
    ELSE IF startswith(s, old)
         THEN new \o replace(SubSeq(s, Len(old) + 1, Len(s)), old, new)
         ELSE <<Head(s)>> \o replace(Tail(s), old, new)

\* Mutant of join: the separator is left out.
RECURSIVE join_nosep(_, _)
join_nosep(sep, items) ==
    IF items = <<>> THEN <<>>
    ELSE items[1] \o join_nosep(sep, Tail(items))

RECURSIVE join(_, _)
join(sep, items) ==
    IF items = <<>> THEN <<>>
    ELSE IF Len(items) = 1 THEN items[1]
    ELSE items[1] \o sep \o join(sep, Tail(items))

(***************************************************************************)
(* Identifiers and expressions that occur in the inputs.  Some function    *)
(* names extend the name f by a suffix that build_graph_model gives to     *)
(* node ids.                                                               *)
(***************************************************************************)
n_f == <<"f">>
n_f_step_0 == <<"f","_","s","t","e","p","_","0">>
n_f_end == <<"f","_","e","n","d">>
n_f_start == <<"f","_","s","t","a","r","t">>
n_a == <<"a">>
n_b == <<"b">>

\* An expression node: ok says whether ast.unparse can render it.
e_a_gt_b == [ok |-> TRUE, text |-> <<"a"," ",">"," ","b">>]
e_a == [ok |-> TRUE, text |-> <<"a">>]
e_b == [ok |-> TRUE, text |-> <<"b">>]
e_lit == [ok |-> TRUE, text |-> <<"'">> \o s_Decision_colon \o <<"'">>]
e_bad == [ok |-> FALSE, text |-> <<>>]

unparse(e) == e.text

(***************************************************************************)
(* Syntax trees.  A tree is the pre-order list of its statements, each     *)
(* with its nesting depth below the module (0 = module level).  The        *)
(* children of a compound statement stand for its body followed by its     *)
(* orelse, the order in which ast.iter_child_nodes yields them.            *)
(***************************************************************************)
Compound == {"FunctionDef", "If", "For", "While"}

StmtKinds ==
    {[kind |-> "FunctionDef", name |-> n_f, args |-> <<>>],
     [kind |-> "FunctionDef", name |-> n_f, args |-> <<n_a, n_b>>],
     [kind |-> "FunctionDef", name |-> n_f_start, args |-> <<n_a>>],
     [kind |-> "If", test |-> e_a_gt_b],
     [kind |-> "If", test |-> e_lit],
     [kind |-> "If", test |-> e_bad],
     [kind |-> "For", target |-> e_a, iter |-> e_b],
     [kind |-> "While", test |-> e_a_gt_b],
     [kind |-> "Return", has_value |-> TRUE, value |-> e_a],
     [kind |-> "Return", has_value |-> FALSE],
     [kind |-> "Other"]}

At(stmt, d) == [stmt |-> stmt, depth |-> d]

\* The statements that may follow the last statement of a tree: a compound
\* statement has a non-empty body, so its first child comes next.
NextDepths(t) ==
    IF t = <<>> THEN {0}
    ELSE IF t[Len(t)].stmt.kind \in Compound THEN {t[Len(t)].depth + 1}
    ELSE 0 .. t[Len(t)].depth

RECURSIVE Prefixes(_)
Prefixes(n) ==
    IF n = 0 THEN {<<>>}
    ELSE LET P == Prefixes(n - 1)
         IN  P \cup {Append(t, At(s, d)) :
                        <<t, s, d>> \in {<<t, s, d>> \in P \X StmtKinds \X (0 .. n) :
                                            /\ Len(t) = n - 1
                                            /\ d \in NextDepths(t)}}

Trees ==
    {t \in Prefixes(MaxNodes) : t = <<>> \/ t[Len(t)].stmt.kind \notin Compound}

\* Position i = 0 is the ast.Module node.
DepthOf(t, i) == IF i = 0 THEN -1 ELSE t[i].depth

IsChild(t, i, j) ==
    /\ j > i
    /\ t[j].depth = DepthOf(t, i) + 1
    /\ \A k \in (i + 1) .. j : t[k].depth > DepthOf(t, i)

RECURSIVE SortedSeq(_)
SortedSeq(S) ==
    IF S = {} THEN <<>>
    ELSE LET m == CHOOSE x \in S : \A y \in S : x <= y
         IN  <<m>> \o SortedSeq(S \ {m})

Children(t, i) == SortedSeq({j \in 1 .. Len(t) : IsChild(t, i, j)})

(***************************************************************************)
(* CodeAnalyzer.  structure["functions"] is a dict: a list of entries in   *)
(* insertion order, one per key; assigning to a present key replaces its   *)
(* value in place.                                                         *)
(***************************************************************************)
HasKey(functions, name) == \E k \in 1 .. Len(functions) : functions[k].name = name

KeyIndex(functions, name) == CHOOSE k \in 1 .. Len(functions) : functions[k].name = name

\* Mutant of SetItem: a present key keeps its first value.
SetItem_first(functions, name, details) ==
    IF HasKey(functions, name) THEN functions
    ELSE Append(functions, [name |-> name, args |-> details.args, flow |-> details.flow])

SetItem(functions, name, details) ==
    LET entry == [name |-> name, args |-> details.args, flow |-> details.flow]
    IN  IF HasKey(functions, name)
        THEN [functions EXCEPT ![KeyIndex(functions, name)] = entry]
        ELSE Append(functions, entry)

\* The expressions ast.unparse is called on for one body item.
Unparsed(stmt) ==
    CASE stmt.kind = "If" -> {stmt.test}
      [] stmt.kind = "For" -> {stmt.target, stmt.iter}
      [] stmt.kind = "While" -> {stmt.test}
      [] stmt.kind = "Return" -> IF stmt.has_value THEN {stmt.value} ELSE {}
      [] OTHER -> {}

\* Mutant of StepsOf: the while branch is missing.
StepsOf_nowhile(stmt) ==
    CASE stmt.kind = "If" -> <<s_Decision_if \o unparse(stmt.test)>>
      [] stmt.kind = "For" ->
           <<s_Loop_for \o unparse(stmt.target) \o s_in \o unparse(stmt.iter)>>
      [] stmt.kind = "Return" ->
           IF stmt.has_value THEN <<s_Return_sp \o unparse(stmt.value)>>
           ELSE <<s_Return>>
      [] OTHER -> <<>>

\* The steps one body item appends to flow.
StepsOf(stmt) ==
    CASE stmt.kind = "If" -> <<s_Decision_if \o unparse(stmt.test)>>
      [] stmt.kind = "For" ->
           <<s_Loop_for \o unparse(stmt.target) \o s_in \o unparse(stmt.iter)>>
      [] stmt.kind = "While" -> <<s_Loop_while \o unparse(stmt.test)>>
      [] stmt.kind = "Return" ->
           IF stmt.has_value THEN <<s_Return_sp \o unparse(stmt.value)>>
           ELSE <<s_Return>>
      [] OTHER -> <<>>

RECURSIVE FlowOf(_, _)
FlowOf(t, body) ==
    IF body = <<>> THEN <<>>
    ELSE StepsOf(t[Head(body)].stmt) \o FlowOf(t, Tail(body))

RECURSIVE visit(_, _, _)
RECURSIVE visit_all(_, _, _)

generic_visit(an, t, i) == visit_all(an, t, Children(t, i))

visit_FunctionDef(an, t, i) ==
    LET node == t[i].stmt
        body == Children(t, i)
        raises == \E k \in 1 .. Len(body) :
                     \E e \in Unparsed(t[body[k]].stmt) : ~e.ok
        details == [args |-> node.args, flow |-> FlowOf(t, body)]
    IN  IF raises THEN [an EXCEPT !.raised = TRUE]
        ELSE generic_visit(
                 [an EXCEPT !.functions = SetItem(an.functions, node.name, details)],
                 t, i)

visit(an, t, i) ==
    IF an.raised THEN an
    ELSE IF i > 0 /\ t[i].stmt.kind = "FunctionDef" THEN visit_FunctionDef(an, t, i)
    ELSE generic_visit(an, t, i)

visit_all(an, t, nodes) ==
    IF nodes = <<>> THEN an
    ELSE visit_all(visit(an, t, Head(nodes)), t, Tail(nodes))

CodeAnalyzer == [functions |-> <<>>, raised |-> FALSE]

(***************************************************************************)
(* networkx.DiGraph.  nodes is the node dict in insertion order, attr the  *)
(* attribute dict of each node and adj the successor dict of each node in  *)
(* insertion order.  edge_calls is a history of the add_edge calls.        *)
(***************************************************************************)
DiGraph == [nodes |-> <<>>, attr |-> <<>>, adj |-> <<>>, edge_calls |-> <<>>]

HasNode(G, n) == n \in DOMAIN G.attr

\* dict.update: the keys of new overwrite those of old.
Update(old, new) ==
    [k \in DOMAIN old \cup DOMAIN new |-> IF k \in DOMAIN new THEN new[k] ELSE old[k]]

add_node(G, n, attrs) ==
    IF HasNode(G, n)
    THEN [G EXCEPT !.attr = [G.attr EXCEPT ![n] = Update(G.attr[n], attrs)]]
    ELSE [G EXCEPT !.nodes = Append(G.nodes, n),
                   !.attr = G.attr @@ (n :> attrs),
                   !.adj = G.adj @@ (n :> <<>>)]

InSeq(x, s) == \E k \in 1 .. Len(s) : s[k] = x

add_edge(G, u, v) ==
    LET G1 == IF HasNode(G, u) THEN G ELSE add_node(G, u, <<>>)
        G2 == IF HasNode(G1, v) THEN G1 ELSE add_node(G1, v, <<>>)
    IN  [G2 EXCEPT !.adj = [G2.adj EXCEPT ![u] =
                               IF InSeq(v, G2.adj[u]) THEN G2.adj[u]
                               ELSE Append(G2.adj[u], v)],
                   !.edge_calls = Append(G2.edge_calls, <<u, v>>)]

\* G.edges(): the out-edges of each node, nodes in insertion order.
RECURSIVE EdgesFrom(_, _)
EdgesFrom(G, ns) ==
    IF ns = <<>> THEN <<>>
    ELSE [k \in 1 .. Len(G.adj[Head(ns)]) |-> <<Head(ns), G.adj[Head(ns)][k]>>]
         \o EdgesFrom(G, Tail(ns))

RECURSIVE Reverse(_)
Reverse(s) == IF s = <<>> THEN <<>> ELSE Append(Reverse(Tail(s)), Head(s))

\* Mutant of edges: the nodes are walked last to first.
edges_backwards(G) == EdgesFrom(G, Reverse(G.nodes))

edges(G) == EdgesFrom(G, G.nodes)

(***************************************************************************)
(* build_graph_model                                                       *)
(***************************************************************************)
\* Mutant of add_step: every step is linked from the Start node.
add_step_from_start(st, name, subgraph_name, i, step) ==
    LET step_id == s_func_ \o name \o s__step_ \o str(i)
        G1 == add_node(st.G, step_id,
                       [label |-> step, shape |-> "box", subgraph |-> subgraph_name])
    IN  [G |-> add_edge(G1, s_func_ \o name \o s__start, step_id),
         last_node_id |-> step_id]

\* One iteration of the loop over the flow (i counts from 0).
add_step(st, name, subgraph_name, i, step) ==
    LET step_id == s_func_ \o name \o s__step_ \o str(i)
        G1 == IF startswith(step, s_Decision)
              THEN add_node(st.G, step_id,
                            [label |-> replace(step, s_Decision_colon, <<>>),
                             shape |-> "diamond", fillcolor |-> "khaki",
                             subgraph |-> subgraph_name])
              ELSE add_node(st.G, step_id,
                            [label |-> step, shape |-> "box",
                             subgraph |-> subgraph_name])
    IN  [G |-> add_edge(G1, st.last_node_id, step_id), last_node_id |-> step_id]

RECURSIVE add_steps(_, _, _, _, _)
add_steps(st, name, subgraph_name, flow, i) ==
    IF i >= Len(flow) THEN st
    ELSE add_steps(add_step(st, name, subgraph_name, i, flow[i + 1]),
                   name, subgraph_name, flow, i + 1)

\* Mutant of add_empty: no placeholder is inserted.
add_empty_nothing(G, name, subgraph_name, last_node_id) ==
    [G |-> G, last_node_id |-> last_node_id]

\* The branch taken for an empty flow.
add_empty(G, name, subgraph_name, last_node_id) ==
    LET empty_node_id == s_func_ \o name \o s__empty
    IN  [G |-> add_edge(add_node(G, empty_node_id,
                                 [label |-> s_No_operations, shape |-> "plaintext",
                                  subgraph |-> subgraph_name]),
                        last_node_id, empty_node_id),
         last_node_id |-> empty_node_id]

\* One iteration of the loop over the functions of the structure.
build_function(G, name, details) ==
    LET subgraph_name == s_cluster_func_ \o name
        func_start_id == s_func_ \o name \o s__start
        G1 == add_node(G, func_start_id,
                       [label |-> s_Start, shape |-> "ellipse",
                        fillcolor |-> "palegreen", subgraph |-> subgraph_name,
                        func_name |-> name, func_args |-> details.args])
        flow == details.flow
        st == IF flow = <<>>
              THEN add_empty(G1, name, subgraph_name, func_start_id)
              ELSE add_steps([G |-> G1, last_node_id |-> func_start_id],
                             name, subgraph_name, flow, 0)
        func_end_id == s_func_ \o name \o s__end
        G2 == add_node(st.G, func_end_id,
                       [label |-> s_End, shape |-> "ellipse",
                        fillcolor |-> "lightcoral", subgraph |-> subgraph_name])
    IN  add_edge(G2, st.last_node_id, func_end_id)

RECURSIVE build_functions(_, _)
build_functions(G, functions) ==
    IF functions = <<>> THEN G
    ELSE build_functions(build_function(G, Head(functions).name, Head(functions)),
                         Tail(functions))

build_graph_model(functions) == build_functions(DiGraph, functions)

(***************************************************************************)
(* create_logic_flowchart.  A graphviz Digraph is its body, the list of    *)
(* statements in the order they were added; subgraph_clusters is a dict    *)
(* in insertion order.                                                     *)
(***************************************************************************)
Get(attrs, key, default) == IF key \in DOMAIN attrs THEN attrs[key] ELSE default

Without(attrs, keys) == [k \in DOMAIN attrs \ keys |-> attrs[k]]

ClusterIndex(clusters, name) == CHOOSE k \in 1 .. Len(clusters) : clusters[k].name = name

HasCluster(clusters, name) == \E k \in 1 .. Len(clusters) : clusters[k].name = name

\* One iteration of the loop over graph.nodes(data=True).
place_node(r, node_id, attrs) ==
    LET has_subgraph == "subgraph" \in DOMAIN attrs /\ attrs.subgraph # <<>>
        subgraph_name == Get(attrs, "subgraph", <<>>)
        func_name == Get(attrs, "func_name", <<>>)
        func_args == Get(attrs, "func_args", <<>>)
        clusters1 ==
            IF /\ has_subgraph
               /\ ~HasCluster(r.subgraph_clusters, subgraph_name)
               /\ startswith(subgraph_name, s_cluster_func)
            THEN Append(r.subgraph_clusters,
                        [name |-> subgraph_name,
                         label |-> s_Function \o func_name \o s_lparen
                                   \o join(s_comma_sp, func_args) \o s_rparen,
                         style |-> "rounded",
                         body |-> <<>>])
            ELSE r.subgraph_clusters
        decl == [stmt |-> "node", id |-> node_id,
                 attrs |-> Without(attrs, {"subgraph", "func_name", "func_args"})]
    IN  IF "subgraph" \in DOMAIN attrs /\ HasCluster(clusters1, subgraph_name)
        THEN [body |-> r.body,
              subgraph_clusters |->
                  [clusters1 EXCEPT ![ClusterIndex(clusters1, subgraph_name)].body =
                                        Append(@, decl)]]
        ELSE [body |-> Append(r.body, decl), subgraph_clusters |-> clusters1]

RECURSIVE place_nodes(_, _, _)
place_nodes(r, graph, ns) ==
    IF ns = <<>> THEN r
    ELSE place_nodes(place_node(r, Head(ns), graph.attr[Head(ns)]), graph, Tail(ns))

\* Mutant of empty_notice: nothing is added for an empty graph.
empty_notice_nothing(body, graph) == body

\* The informational node of an empty graph.
empty_notice(body, graph) ==
    IF graph.nodes = <<>>
    THEN Append(body, [stmt |-> "node", id |-> s_main,
                       attrs |-> [label |-> s_No_functions]])
    ELSE body

create_logic_flowchart(graph) ==
    LET header == <<[stmt |-> "attr", kw |-> "node", style |-> "rounded,filled",
                     fillcolor |-> "white"],
                    [stmt |-> "attr", kw |-> "graph", rankdir |-> "TB",
                     splines |-> "ortho", labelloc |-> "t",
                     label |-> "Code Logic Flowchart"],
                    [stmt |-> "attr", kw |-> "graph", fontname |-> "Helvetica"]>>
        body0 == empty_notice(header, graph)
        r == place_nodes([body |-> body0, subgraph_clusters |-> <<>>],
                         graph, graph.nodes)
        subgraphs == [k \in 1 .. Len(r.subgraph_clusters) |->
                        [stmt |-> "subgraph",
                         name |-> r.subgraph_clusters[k].name,
                         label |-> r.subgraph_clusters[k].label,
                         style |-> r.subgraph_clusters[k].style,
                         body |-> r.subgraph_clusters[k].body]]
        es == edges(graph)
        edge_stmts == [k \in 1 .. Len(es) |->
                         [stmt |-> "edge", tail |-> es[k][1], head |-> es[k][2]]]
    IN  [name |-> "CodeFlow", format |-> "png",
         body |-> r.body \o subgraphs \o edge_stmts]

(***************************************************************************)
(* analyze_code_endpoint: the state of one request.                        *)
(***************************************************************************)
VARIABLES
    tree,        \* the result of ast.parse
    pc,          \* position in the endpoint
    structure,   \* analyzer.structure["functions"]
    graph,       \* graph_model
    dot,         \* dot_obj
    response     \* the AnalysisResult returned

vars == <<tree, pc, structure, graph, dot, response>>

NoDot == [name |-> "", format |-> "", body |-> <<>>]

NoResponse == [summary |-> "", has_flowchart |-> FALSE, error |-> ""]

Init ==
    /\ tree \in Trees
    /\ pc = "parsed"
    /\ structure = <<>>
    /\ graph = DiGraph
    /\ dot = NoDot
    /\ response = NoResponse

\* analyzer.visit(tree) returns.
Analyze ==
    /\ pc = "parsed"
    /\ LET an == visit(CodeAnalyzer, tree, 0)
       IN  /\ ~an.raised
           /\ structure' = an.functions
    /\ pc' = "extracted"
    /\ UNCHANGED <<tree, graph, dot, response>>

\* analyzer.visit(tree) raises: the endpoint's except clause answers.
AnalyzeRaises ==
    /\ pc = "parsed"
    /\ visit(CodeAnalyzer, tree, 0).raised
    /\ response' = [summary |-> "", has_flowchart |-> FALSE,
                    error |-> "An unexpected error occurred"]
    /\ pc' = "responded"
    /\ UNCHANGED <<tree, structure, graph, dot>>

Build ==
    /\ pc = "extracted"
    /\ graph' = build_graph_model(structure)
    /\ pc' = "built"
    /\ UNCHANGED <<tree, structure, dot, response>>

\* The diagram is rendered and the result returned.  The drawing engine and
\* the summarizer are collaborators: the image is stood for by dot.
Render ==
    /\ pc = "built"
    /\ dot' = create_logic_flowchart(graph)
    /\ response' = [summary |-> "summary", has_flowchart |-> TRUE, error |-> ""]
    /\ pc' = "responded"
    /\ UNCHANGED <<tree, structure, graph>>

Next == Analyze \/ AnalyzeRaises \/ Build \/ Render

Spec == Init /\ [][Next]_vars

(***************************************************************************)
(* build_graph_model and create_logic_flowchart applied to any structure.  *)
(***************************************************************************)
FuncNames == {n_f, n_f_step_0, n_f_end}

ArgLists == {<<n_a, n_b>>}

StepTexts == {s_Decision_if \o e_a_gt_b.text, s_Return_sp \o e_a.text}

RECURSIVE Flows(_)
Flows(n) ==
    IF n = 0 THEN {<<>>}
    ELSE Flows(n - 1) \cup {Append(f, s) : <<f, s>> \in
                               {<<f, s>> \in Flows(n - 1) \X StepTexts : Len(f) = n - 1}}

Entries ==
    {[name |-> nm, args |-> a, flow |-> f] :
        <<nm, a, f>> \in FuncNames \X ArgLists \X Flows(MaxSteps)}

RECURSIVE Structures(_)
Structures(n) ==
    IF n = 0 THEN {<<>>}
    ELSE Structures(n - 1) \cup
         {Append(fs, e) : <<fs, e>> \in
             {<<fs, e>> \in Structures(n - 1) \X Entries :
                 Len(fs) = n - 1 /\ ~HasKey(fs, e.name)}}

InitBuild ==
    /\ tree = <<>>
    /\ pc = "extracted"
    /\ structure \in Structures(MaxFuncs)
    /\ graph = DiGraph
    /\ dot = NoDot
    /\ response = NoResponse

NextBuild == Build \/ Render

SpecBuild == InitBuild /\ [][NextBuild]_vars

(***************************************************************************)
(* Vocabulary of the properties.                                           *)
(***************************************************************************)
NodeSet(G) == DOMAIN G.attr

ClusterOf(G, n) == Get(G.attr[n], "subgraph", <<>>)

ClusterIds(G) == {ClusterOf(G, n) : n \in NodeSet(G)} \ {<<>>}

Members(G, c) == {n \in NodeSet(G) : ClusterOf(G, n) = c}

EdgeSet(G) == UNION {{<<u, G.adj[u][k]>> : k \in 1 .. Len(G.adj[u])} : u \in NodeSet(G)}

InDeg(E, n) == Cardinality({e \in E : e[2] = n})

OutDeg(E, n) == Cardinality({e \in E : e[1] = n})

IsStart(G, n) ==
    /\ Get(G.attr[n], "label", <<>>) = s_Start
    /\ Get(G.attr[n], "shape", "") = "ellipse"
    /\ Get(G.attr[n], "fillcolor", "") = "palegreen"

IsEnd(G, n) ==
    /\ Get(G.attr[n], "label", <<>>) = s_End
    /\ Get(G.attr[n], "shape", "") = "ellipse"
    /\ Get(G.attr[n], "fillcolor", "") = "lightcoral"

IsPlaceholder(G, n) ==
    /\ Get(G.attr[n], "label", <<>>) = s_No_operations
    /\ Get(G.attr[n], "shape", "") = "plaintext"

\* The nodes met from n by following the first out-edge at most k times.
RECURSIVE Walk(_, _, _)
Walk(G, n, k) ==
    IF k = 0 \/ G.adj[n] = <<>> THEN <<n>>
    ELSE <<n>> \o Walk(G, G.adj[n][1], k - 1)

Range(s) == {s[k] : k \in 1 .. Len(s)}

\* The Start nodes that carry the metadata of the function called name.
StartsOf(G, name) ==
    {n \in NodeSet(G) : IsStart(G, n) /\ Get(G.attr[n], "func_name", <<>>) = name}

\* The chain of the cluster of the function called name (one Start assumed).
ChainOf(G, name) ==
    LET start == CHOOSE n \in StartsOf(G, name) : TRUE
    IN  Walk(G, start, Cardinality(Members(G, ClusterOf(G, start))))

EdgesWithin(G, c) ==
    {e \in EdgeSet(G) : ClusterOf(G, e[1]) = c /\ ClusterOf(G, e[2]) = c}

Rendered == pc = "responded" /\ response.has_flowchart

Contains(s, sub) ==
    \E k \in 1 .. (Len(s) - Len(sub) + 1) : SubSeq(s, k, k + Len(sub) - 1) = sub

RECURSIVE Filter(_, _)
Filter(s, keep) ==
    IF s = <<>> THEN <<>>
    ELSE IF Head(s) \in keep THEN <<Head(s)>> \o Filter(Tail(s), keep)
    ELSE Filter(Tail(s), keep)

\* The statements of a Digraph body of one kind, in order.
RECURSIVE StmtsOf(_, _)
StmtsOf(body, kind) ==
    IF body = <<>> THEN <<>>
    ELSE IF Head(body).stmt = kind THEN <<Head(body)>> \o StmtsOf(Tail(body), kind)
    ELSE StmtsOf(Tail(body), kind)

RECURSIVE SumLen(_)
SumLen(subs) == IF subs = <<>> THEN 0 ELSE Len(Head(subs).body) + SumLen(Tail(subs))

\* Number of node declarations of a diagram, at top level and in clusters.
DeclCount(d) == Len(StmtsOf(d.body, "node")) + SumLen(StmtsOf(d.body, "subgraph"))

IsNotice(st) ==
    /\ st.stmt = "node"
    /\ st.id = s_main
    /\ st.attrs = [label |-> s_No_functions]

Max(a, b) == IF a >= b THEN a ELSE b

FunctionDefs(t) == {i \in 1 .. Len(t) : t[i].stmt.kind = "FunctionDef"}

DefsOf(t, name) == {i \in FunctionDefs(t) : t[i].stmt.name = name}

LastDef(t, name) == CHOOSE i \in DefsOf(t, name) : \A j \in DefsOf(t, name) : j <= i

(***************************************************************************)
(* C1: in the graph built from any structure, every function has its own   *)
(* cluster, and each cluster holds exactly one Start and one End node,     *)
(* Start has in-degree 0 and out-degree 1, End in-degree 1 and out-degree  *)
(* 0, every other node in- and out-degree 1, no edge leaves its cluster,   *)
(* and walking from Start passes through every node and stops at End.      *)
(***************************************************************************)
C1_LinearChains ==
    pc = "built" =>
      LET E == EdgeSet(graph)
      IN
        /\ Cardinality(ClusterIds(graph)) = Len(structure)
        /\ \A n \in NodeSet(graph) : ClusterOf(graph, n) # <<>>
        /\ \A e \in E : ClusterOf(graph, e[1]) = ClusterOf(graph, e[2])
        /\ \A c \in ClusterIds(graph) :
              LET M == Members(graph, c)
                  starts == {n \in M : IsStart(graph, n)}
                  ends == {n \in M : IsEnd(graph, n)}
              IN  /\ Cardinality(starts) = 1
                  /\ Cardinality(ends) = 1
                  /\ \A n \in M :
                        /\ InDeg(E, n) = IF n \in starts THEN 0 ELSE 1
                        /\ OutDeg(E, n) = IF n \in ends THEN 0 ELSE 1
                  /\ \A n \in starts :
                        LET w == Walk(graph, n, Cardinality(M))
                        IN  /\ Len(w) = Cardinality(M)
                            /\ Range(w) = M
                            /\ w[Len(w)] \in ends

C1_Witness ==
    /\ pc = "built"
    /\ Len(structure) = 2
    /\ Len(structure[1].flow) = 2
    /\ structure[2].flow = <<>>
    /\ Cardinality(NodeSet(graph)) = 7

RECURSIVE ExpectedNodes(_)
ExpectedNodes(functions) ==
    IF functions = <<>> THEN 0
    ELSE 2 + Max(1, Len(Head(functions).flow)) + ExpectedNodes(Tail(functions))

(***************************************************************************)
(* C2: node ids are unique across the graph: no add_node call meets an id  *)
(* that is already present, so the graph has 2 + max(1, number of steps)   *)
(* nodes per function, and one edge less than that per function.           *)
(***************************************************************************)
C2_UniqueIds ==
    pc = "built" =>
        /\ Len(graph.nodes) = ExpectedNodes(structure)
        /\ Cardinality(NodeSet(graph)) = ExpectedNodes(structure)
        /\ Cardinality(EdgeSet(graph)) = ExpectedNodes(structure) - Len(structure)
        /\ \A k \in 1 .. Len(structure) :
              Cardinality(StartsOf(graph, structure[k].name)) = 1

C2_Witness ==
    /\ pc = "built"
    /\ Len(structure) = 2
    /\ structure[1].name = n_f
    /\ structure[2].name = n_f_step_0
    /\ Len(structure[1].flow) = 2
    /\ structure[1].flow = structure[2].flow
    /\ Len(graph.nodes) = 8

ExampleTree ==
    <<At([kind |-> "FunctionDef", name |-> n_f, args |-> <<n_a, n_b>>], 0),
      At([kind |-> "If", test |-> e_a_gt_b], 1),
      At([kind |-> "Other"], 2),
      At([kind |-> "Return", has_value |-> TRUE, value |-> e_a], 1)>>

\* The condition text of a Decision step.
CondText(step) == SubSeq(step, Len(s_Decision_if) + 1, Len(step))

(***************************************************************************)
(* C3 as stated in the specification: the diamond node of a Decision      *)
(* step is labelled with the condition text alone.                         *)
(***************************************************************************)
C3_LabelIsCondition ==
    pc = "built" =>
        \A k \in 1 .. Len(structure) :
            \A i \in 1 .. Len(structure[k].flow) :
                startswith(structure[k].flow[i], s_Decision_if) =>
                    LET n == ChainOf(graph, structure[k].name)[i + 1]
                    IN  /\ graph.attr[n].shape = "diamond"
                        /\ graph.attr[n].label = CondText(structure[k].flow[i])

(***************************************************************************)
(* C3 as amended: for f(a, b) with body `if a > b:` then `return a` the    *)
(* flow is [Decision "a > b", Return "a"] and the cluster is Start ->      *)
(* diamond "if a > b" -> box "Return a" -> End with 4 nodes and 3 edges.   *)
(* In general a flow of n >= 1 steps gives a chain of n + 2 nodes and      *)
(* n + 1 edges in flow order; a Decision step is a khaki diamond labelled  *)
(* "if " followed by the condition text (less every occurrence of          *)
(* "Decision: " in it), any other step a box labelled with the step text.  *)
(***************************************************************************)
C3_DecisionChain ==
    pc = "built" =>
        /\ tree = ExampleTree =>
              /\ structure = <<[name |-> n_f, args |-> <<n_a, n_b>>,
                                flow |-> <<s_Decision_if \o <<"a"," ",">"," ","b">>,
                                           s_Return_sp \o <<"a">>>>]>>
              /\ Len(graph.nodes) = 4
              /\ Len(edges(graph)) = 3
              /\ LET w == ChainOf(graph, n_f)
                 IN  /\ Len(w) = 4
                     /\ IsStart(graph, w[1])
                     /\ graph.attr[w[2]].shape = "diamond"
                     /\ graph.attr[w[2]].label = <<"i","f"," ","a"," ",">"," ","b">>
                     /\ graph.attr[w[3]].shape = "box"
                     /\ graph.attr[w[3]].label = <<"R","e","t","u","r","n"," ","a">>
                     /\ IsEnd(graph, w[4])
        /\ \A k \in 1 .. Len(structure) :
              LET flow == structure[k].flow
                  w == ChainOf(graph, structure[k].name)
                  c == ClusterOf(graph, w[1])
              IN  Len(flow) >= 1 =>
                    /\ Len(w) = Len(flow) + 2
                    /\ Cardinality(Members(graph, c)) = Len(flow) + 2
                    /\ Cardinality(EdgesWithin(graph, c)) = Len(flow) + 1
                    /\ IsStart(graph, w[1])
                    /\ IsEnd(graph, w[Len(w)])
                    /\ \A i \in 1 .. Len(flow) :
                          LET a == graph.attr[w[i + 1]]
                          IN  IF startswith(flow[i], s_Decision_if)
                              THEN /\ a.shape = "diamond"
                                   /\ a.fillcolor = "khaki"
                                   /\ ~Contains(CondText(flow[i]), s_Decision_colon)
                                         => a.label = s_if \o CondText(flow[i])
                                   /\ CondText(flow[i]) = e_lit.text
                                         => a.label = s_if \o <<"'", "'">>
                              ELSE /\ a.shape = "box"
                                   /\ "fillcolor" \notin DOMAIN a
                                   /\ a.label = flow[i]

C3_Witness ==
    /\ pc = "built"
    /\ tree = ExampleTree
    /\ Len(graph.nodes) = 4
    /\ graph.attr[ChainOf(graph, n_f)[2]].shape = "diamond"

(***************************************************************************)
(* C4: a function with an empty flow gets exactly the chain Start ->       *)
(* 'No operations' placeholder -> End, three nodes and two edges, and a    *)
(* cluster holds a placeholder node if and only if its flow is empty.      *)
(***************************************************************************)
C4_EmptyFlowPlaceholder ==
    pc = "built" =>
        \A k \in 1 .. Len(structure) :
            LET w == ChainOf(graph, structure[k].name)
                c == ClusterOf(graph, w[1])
                M == Members(graph, c)
            IN  /\ structure[k].flow = <<>> =>
                      /\ Len(w) = 3
                      /\ Cardinality(M) = 3
                      /\ IsStart(graph, w[1])
                      /\ IsPlaceholder(graph, w[2])
                      /\ IsEnd(graph, w[3])
                      /\ EdgesWithin(graph, c) = {<<w[1], w[2]>>, <<w[2], w[3]>>}
                /\ (\E n \in M : IsPlaceholder(graph, n)) <=> structure[k].flow = <<>>

C4_Witness ==
    /\ pc = "built"
    /\ Len(structure) = 2
    /\ structure[1].flow = <<>>
    /\ structure[2].flow # <<>>
    /\ \E n \in NodeSet(graph) : IsPlaceholder(graph, n)

RECURSIVE AllDecls(_)
AllDecls(body) ==
    IF body = <<>> THEN <<>>
    ELSE (IF Head(body).stmt = "node" THEN <<Head(body)>>
          ELSE IF Head(body).stmt = "subgraph" THEN Head(body).body
          ELSE <<>>) \o AllDecls(Tail(body))

(***************************************************************************)
(* C5: a tree without function definitions gives a graph with no nodes,    *)
(* no edges and no clusters and a diagram whose only node is the notice    *)
(* 'No functions found to map.'; the notice appears only for an empty      *)
(* graph; and every diagram declares at least one node.                    *)
(***************************************************************************)
C5_NeverBlank ==
    Rendered =>
        LET decls == AllDecls(dot.body)
        IN  /\ FunctionDefs(tree) = {} =>
                  /\ graph.nodes = <<>>
                  /\ NodeSet(graph) = {}
                  /\ edges(graph) = <<>>
                  /\ ClusterIds(graph) = {}
                  /\ StmtsOf(dot.body, "subgraph") = <<>>
                  /\ StmtsOf(dot.body, "edge") = <<>>
                  /\ Len(decls) = 1
                  /\ IsNotice(decls[1])
            /\ (\E k \in 1 .. Len(decls) : IsNotice(decls[k])) => graph.nodes = <<>>
            /\ Len(decls) >= 1

C5_Witness ==
    /\ Rendered
    /\ tree # <<>>
    /\ FunctionDefs(tree) = {}
    /\ DeclCount(dot) = 1

EntryOfDef(t, i) ==
    [name |-> t[i].stmt.name, args |-> t[i].stmt.args, flow |-> FlowOf(t, Children(t, i))]

(***************************************************************************)
(* C6: when a function name is defined more than once, the structure has   *)
(* one entry for it, holding the parameters and flow of the definition     *)
(* visited last, and the graph and the diagram have exactly one cluster    *)
(* for it, equal to the cluster that definition gives on its own.          *)
(***************************************************************************)
C6_LastDefinitionWins ==
    Rendered =>
        \A i \in FunctionDefs(tree) :
            LET name == tree[i].stmt.name
                last == EntryOfDef(tree, LastDef(tree, name))
                alone == build_graph_model(<<last>>)
                start == CHOOSE n \in StartsOf(graph, name) : TRUE
                c == ClusterOf(graph, start)
                subs == StmtsOf(dot.body, "subgraph")
            IN  /\ Cardinality({k \in 1 .. Len(structure) : structure[k].name = name}) = 1
                /\ structure[KeyIndex(structure, name)] = last
                /\ Cardinality(StartsOf(graph, name)) = 1
                /\ Members(graph, c) = NodeSet(alone)
                /\ \A n \in NodeSet(alone) : graph.attr[n] = alone.attr[n]
                /\ EdgesWithin(graph, c) = EdgeSet(alone)
                /\ Cardinality({k \in 1 .. Len(subs) : subs[k].name = c}) = 1
                /\ \A k \in 1 .. Len(subs) :
                      subs[k].name = c =>
                          subs[k].body = StmtsOf(create_logic_flowchart(alone).body,
                                                 "subgraph")[1].body

C6_Witness ==
    /\ Rendered
    /\ Cardinality(DefsOf(tree, n_f)) = 2
    /\ \E i \in DefsOf(tree, n_f) :
          /\ i # LastDef(tree, n_f)
          /\ EntryOfDef(tree, i).flow # EntryOfDef(tree, LastDef(tree, n_f)).flow
          /\ EntryOfDef(tree, i).args # EntryOfDef(tree, LastDef(tree, n_f)).args
    /\ Len(structure) = 1

\* Some function definition has a body statement that cannot be rendered.
HasUnrenderableStep(t) ==
    \E i \in FunctionDefs(t) :
        \E j \in Range(Children(t, i)) :
            \E e \in Unparsed(t[j].stmt) : ~e.ok

(***************************************************************************)
(* C7: when ast.unparse fails on an expression of a statement in a         *)
(* function body, the request still ends with a diagram and no error.      *)
(***************************************************************************)
C7_RecoversWithPlaceholder ==
    (pc = "responded" /\ HasUnrenderableStep(tree)) =>
        /\ response.has_flowchart
        /\ response.error = ""

RECURSIVE ParamText(_)
ParamText(args) ==
    IF args = <<>> THEN <<>>
    ELSE IF Len(args) = 1 THEN args[1]
    ELSE ParamText(SubSeq(args, 1, Len(args) - 1)) \o <<",", " ">> \o args[Len(args)]

ExpectedLabel(name, args) ==
    <<"F","u","n","c","t","i","o","n",":"," ">> \o name \o <<"(">>
        \o ParamText(args) \o <<")">>

(***************************************************************************)
(* C8: every function of the structure has one cluster in the diagram,     *)
(* labelled 'Function: <name>(<p1>, <p2>, ...)' with its parameters in     *)
(* declared order; the name and parameters are attached to Start nodes     *)
(* only, and the first node of each cluster in the graph's node order is   *)
(* its Start node.                                                         *)
(***************************************************************************)
C8_ClusterLabels ==
    Rendered =>
        LET subs == StmtsOf(dot.body, "subgraph")
        IN  /\ Len(subs) = Len(structure)
            /\ \A k \in 1 .. Len(structure) :
                  LET f == structure[k]
                      start == CHOOSE n \in StartsOf(graph, f.name) : TRUE
                      c == ClusterOf(graph, start)
                      first == Filter(graph.nodes, Members(graph, c))[1]
                  IN  /\ first = start
                      /\ subs[k].name = c
                      /\ subs[k].label = ExpectedLabel(f.name, f.args)
                      /\ (f.name = n_f /\ f.args = <<n_a, n_b>>) =>
                            subs[k].label =
                               <<"F","u","n","c","t","i","o","n",":"," ",
                                 "f","(","a",","," ","b",")">>
                      /\ (f.name = n_f /\ f.args = <<>>) =>
                            subs[k].label =
                               <<"F","u","n","c","t","i","o","n",":"," ","f","(",")">>
            /\ \A n \in NodeSet(graph) :
                  /\ "func_name" \in DOMAIN graph.attr[n] <=> IsStart(graph, n)
                  /\ "func_args" \in DOMAIN graph.attr[n] <=> IsStart(graph, n)

C8_Witness ==
    /\ Rendered
    /\ Len(structure) = 2
    /\ structure[1].args = <<n_a, n_b>>
    /\ structure[1].flow # <<>>
    /\ StmtsOf(dot.body, "subgraph")[1].label = ExpectedLabel(n_f, <<n_a, n_b>>)

StepKinds == {"If", "For", "While", "Return"}

StepPrefix(kind) ==
    CASE kind = "If" -> <<"D","e","c","i","s","i","o","n",":"," ","i","f"," ">>
      [] kind = "For" -> <<"L","o","o","p",":"," ","f","o","r"," ">>
      [] kind = "While" -> <<"L","o","o","p",":"," ","w","h","i","l","e"," ">>
      [] kind = "Return" -> <<"R","e","t","u","r","n">>

(***************************************************************************)
(* C9: the flow of a function has one step per if/for/while/return         *)
(* statement that is a direct child of its body, in body order, and none   *)
(* for any other statement or for statements nested deeper; every function *)
(* definition anywhere in the tree has an entry under its name, and the    *)
(* structure has no other entries.                                         *)
(***************************************************************************)
C9_DirectChildrenOnly ==
    pc = "extracted" =>
        /\ \A i \in FunctionDefs(tree) : HasKey(structure, tree[i].stmt.name)
        /\ \A k \in 1 .. Len(structure) :
              /\ DefsOf(tree, structure[k].name) # {}
              /\ LET i == LastDef(tree, structure[k].name)
                     direct == Filter(Children(tree, i),
                                      {j \in 1 .. Len(tree) :
                                          tree[j].stmt.kind \in StepKinds})
                     flow == structure[k].flow
                 IN  /\ Len(flow) = Len(direct)
                     /\ \A m \in 1 .. Len(direct) :
                           startswith(flow[m], StepPrefix(tree[direct[m]].stmt.kind))

\* A function nested in an if statement of another function, and a return
\* nested below the body of that function.
C9_Witness ==
    /\ pc = "extracted"
    /\ Len(tree) = 4
    /\ tree[1].stmt.kind = "FunctionDef"
    /\ tree[2].stmt.kind = "If" /\ tree[2].depth = 1
    /\ tree[3].stmt.kind = "FunctionDef" /\ tree[3].depth = 2
    /\ tree[3].stmt.name # tree[1].stmt.name
    /\ tree[4].stmt.kind = "Return" /\ tree[4].depth = 3
    /\ Len(structure) = 2
    /\ Len(structure[1].flow) = 1
    /\ Len(structure[2].flow) = 1

(***************************************************************************)
(* C10: the diagram declares every graph node exactly once, in the cluster *)
(* named by its cluster id and with its visual attributes; the clusters    *)
(* come in the order in which their Start nodes were created; and the      *)
(* edges come once each, in the order build_graph_model added them.        *)
(***************************************************************************)
C10_OrderPreserved ==
    Rendered =>
        LET subs == StmtsOf(dot.body, "subgraph")
            es == StmtsOf(dot.body, "edge")
            decls == AllDecls(dot.body)
            starts == Filter(graph.nodes, {n \in NodeSet(graph) : IsStart(graph, n)})
        IN  /\ \A n \in NodeSet(graph) :
                  /\ Cardinality({k \in 1 .. Len(decls) : decls[k].id = n}) = 1
                  /\ \E k \in 1 .. Len(subs) :
                        /\ subs[k].name = ClusterOf(graph, n)
                        /\ \E m \in 1 .. Len(subs[k].body) :
                              /\ subs[k].body[m].id = n
                              /\ subs[k].body[m].attrs.label = graph.attr[n].label
                              /\ subs[k].body[m].attrs.shape = graph.attr[n].shape
            /\ graph.nodes # <<>> => Len(decls) = Len(graph.nodes)
            /\ [k \in 1 .. Len(subs) |-> subs[k].name]
                  = [k \in 1 .. Len(starts) |-> ClusterOf(graph, starts[k])]
            /\ Len(starts) = Len(structure)
            /\ \A k \in 1 .. Len(structure) :
                  Get(graph.attr[starts[k]], "func_name", <<>>) = structure[k].name
            /\ [k \in 1 .. Len(es) |-> <<es[k].tail, es[k].head>>] = graph.edge_calls

C10_Witness ==
    /\ Rendered
    /\ Len(structure) = 2
    /\ Len(structure[1].flow) = 2
    /\ Len(structure[2].flow) = 1
    /\ Len(StmtsOf(dot.body, "subgraph")) = 2
    /\ Len(StmtsOf(dot.body, "edge")) = 5

====
